---- MODULE Spec2Model ----
(***************************************************************************)
(* Hash Analyzer backend: the pattern catalog (hashPatterns), its loader,  *)
(* the scorer detectCandidates and the aggregator analyzeInput of          *)
(* backend/src/detector.ts, with the string utilities they import.         *)
(*                                                                         *)
(* Strings are sequences of UTF-16 code units (integers).  JavaScript      *)
(* numbers that take part in the score are IEEE-754 doubles, modelled      *)
(* exactly: a double d with 0 <= d < 4 is the pair <<hi, lo>> with         *)
(* d = (hi * 2^29 + lo) * 2^-57, and FAdd rounds to nearest, ties to even. *)
(***************************************************************************)
EXTENDS Integers, Sequences, FiniteSets, TLC

(***************************************************************************)
(* Bounds of the model.                                                    *)
(***************************************************************************)
\* longest catalog drawn from the descriptor pool
MaxCatalog == 4
\* longest input enumerated over Alphabet (named vectors are longer)
MaxInputLen == 2

(***************************************************************************)
(* IEEE-754 double arithmetic on [0, 4).                                   *)
(***************************************************************************)
Limb == 2^29

FNorm(hi, lo) == <<hi + (lo \div Limb), lo % Limb>>

\* unit in the last place of the binade holding a value with high limb hi,
\* in units of 2^-57
Ulp(hi) ==
    IF hi >= 2^29 THEN 64
    ELSE IF hi >= 2^28 THEN 32
    ELSE IF hi >= 2^27 THEN 16
    ELSE IF hi >= 2^26 THEN 8
    ELSE IF hi >= 2^25 THEN 4
    ELSE IF hi >= 2^24 THEN 2
    ELSE 1

\* x rounded to a multiple of u: to nearest, ties to the even multiple;
\* r is the remainder of the low limb
RoundTo(x, u, r) ==
    IF 2 * r < u \/ (2 * r = u /\ ((x[2] - r) \div u) % 2 = 0)
    THEN <<x[1], x[2] - r>>
    ELSE FNorm(x[1], x[2] - r + u)

RoundToUlp(x, u) == RoundTo(x, u, x[2] % u)

FRound(x) == RoundToUlp(x, Ulp(x[1]))

\* a + b on doubles
FAdd(a, b) == FRound(FNorm(a[1] + b[1], a[2] + b[2]))

FLt(a, b) == a[1] < b[1] \/ (a[1] = b[1] /\ a[2] < b[2])
FLe(a, b) == a = b \/ FLt(a, b)
FGt(a, b) == FLt(b, a)
FGe(a, b) == FLe(b, a)

\* Math.min
FMin(a, b) == IF FLt(b, a) THEN b ELSE a

\* the double nearest to each decimal literal of the scorer
F0_0 == <<0, 0>>
F0_05 == <<13421772, 429496730>>
F0_1 == <<26843545, 322122548>>
F0_15 == <<40265318, 214748364>>
F0_2 == <<53687091, 107374184>>
F0_25 == <<67108864, 0>>
F0_3 == <<80530636, 429496728>>
F0_4 == <<107374182, 214748368>>
F0_55 == <<147639500, 429496736>>
F0_8 == <<214748364, 429496736>>
F1_0 == <<268435456, 0>>

(***************************************************************************)
(* Character classes and the utilities of utils.ts.                        *)
(***************************************************************************)
IsDigit(c) == c >= 48 /\ c <= 57
IsUpper(c) == c >= 65 /\ c <= 90
IsLower(c) == c >= 97 /\ c <= 122
IsLetter(c) == IsUpper(c) \/ IsLower(c)
IsHexChar(c) == IsDigit(c) \/ (c >= 65 /\ c <= 70) \/ (c >= 97 /\ c <= 102)
\* [A-Za-z0-9+/]
IsBase64Char(c) == IsLetter(c) \/ IsDigit(c) \/ c = 43 \/ c = 47

\* /^[0-9a-fA-F]+$/
isHex(str) == Len(str) > 0 /\ \A i \in 1..Len(str) : IsHexChar(str[i])

\* /^[A-Za-z0-9+/]+=*$/ : k base64 characters (k >= 1), then only '='
isBase64(str) ==
    \E k \in 1..Len(str) :
        /\ \A i \in 1..k : IsBase64Char(str[i])
        /\ \A i \in (k + 1)..Len(str) : str[i] = 61

\* /^[\x00-\x7F]*$/
isAscii(str) == \A i \in 1..Len(str) : str[i] <= 127

\* a variant that tests base64 before hex
getCharset_Base64First(str) ==
    IF isBase64(str) THEN "base64"
    ELSE IF isHex(str) THEN "hex"
    ELSE IF isAscii(str) THEN "ascii"
    ELSE "unknown"

getCharset(str) ==
    IF isHex(str) THEN "hex"
    ELSE IF isBase64(str) THEN "base64"
    ELSE IF isAscii(str) THEN "ascii"
    ELSE "unknown"

\* the least element of a non-empty set of integers
Least(S) == CHOOSE i \in S : \A j \in S : i <= j

\* the string iterator (for...of, new Set(str)) yields code points: a high
\* surrogate followed by a low one is one character
Paired(str, i) ==
    /\ i < Len(str)
    /\ str[i] >= 55296 /\ str[i] <= 56319
    /\ str[i + 1] >= 56320 /\ str[i + 1] <= 57343

\* the indices at which the iterator yields a character
Starts(str) == {i \in 1..Len(str) : ~(i > 1 /\ Paired(str, i - 1))}

\* the character yielded at index i, as its code point
CharAt(str, i) ==
    IF Paired(str, i)
    THEN 65536 + (str[i] - 55296) * 1024 + (str[i + 1] - 56320)
    ELSE str[i]

\* a code unit outside the surrogate range is a character by itself
IsSurrogate(c) == c >= 55296 /\ c <= 57343

\* the distinct code units of a string
Units(str) == {str[i] : i \in 1..Len(str)}

\* the distinct characters of a string
Chars(str) ==
    IF \A c \in Units(str) : ~IsSurrogate(c)
    THEN Units(str)
    ELSE {CharAt(str, i) : i \in Starts(str)}

\* the number of times the iterator yields character c
Count(str, c) ==
    IF c < 65536 /\ ~IsSurrogate(c)
    THEN Cardinality({i \in 1..Len(str) : str[i] = c})
    ELSE Cardinality({i \in Starts(str) : CharAt(str, i) = c})

\* round(log2(k) * 10^6) for k = 1..64: Math.log2 in fixed point (micro-bits)
Log2Table == <<
    0, 1000000, 1584963, 2000000, 2321928, 2584963, 2807355, 3000000,
    3169925, 3321928, 3459432, 3584963, 3700440, 3807355, 3906891, 4000000,
    4087463, 4169925, 4247928, 4321928, 4392317, 4459432, 4523562, 4584963,
    4643856, 4700440, 4754888, 4807355, 4857981, 4906891, 4954196, 5000000,
    5044394, 5087463, 5129283, 5169925, 5209453, 5247928, 5285402, 5321928,
    5357552, 5392317, 5426265, 5459432, 5491853, 5523562, 5554589, 5584963,
    5614710, 5643856, 5672425, 5700440, 5727920, 5754888, 5781360, 5807355,
    5832890, 5857981, 5882643, 5906891, 5930737, 5954196, 5977280, 6000000
>>

\* -p * log2(p) * n for p = k / n; log2(1) = 0
EntropyTerm(k, n) == IF k = n THEN 0 ELSE k * (Log2Table[n] - Log2Table[k])

RECURSIVE SumOver(_, _, _)
\* sum of the terms of the characters in cs
SumOver(cs, str, n) ==
    IF cs = {} THEN 0
    ELSE EntropyTerm(Count(str, Least(cs)), n) + SumOver(cs \ {Least(cs)}, str, n)

\* Shannon entropy in micro-bits per character (fixed point, floor)
shannonEntropy(str) ==
    IF Len(str) = 0 THEN 0
    ELSE SumOver(Chars(str), str, Len(str)) \div Len(str)

\* the value of one base64 character (Node also reads the URL-safe - and _)
Sextet(c) ==
    IF IsUpper(c) THEN c - 65
    ELSE IF IsLower(c) THEN c - 97 + 26
    ELSE IF IsDigit(c) THEN c - 48 + 52
    ELSE IF c = 43 \/ c = 45 THEN 62
    ELSE IF c = 47 \/ c = 95 THEN 63
    ELSE -1

\* the elements of str before the first index in stops (all when stops is empty)
UpToFirst(str, stops) ==
    IF stops = {} THEN str ELSE SubSeq(str, 1, Least(stops) - 1)

\* the characters the base64 decoder reads
Base64Legal(str) ==
    SelectSeq(UpToFirst(str, {i \in 1..Len(str) : str[i] = 61}),
              LAMBDA c : Sextet(c) >= 0)

\* byte j (0, 1 or 2) of the group of four characters that starts behind q
Base64Byte(legal, q, j) ==
    IF j = 0 THEN Sextet(legal[q + 1]) * 4 + (Sextet(legal[q + 2]) \div 16)
    ELSE IF j = 1 THEN (Sextet(legal[q + 2]) % 16) * 16 + (Sextet(legal[q + 3]) \div 4)
    ELSE (Sextet(legal[q + 3]) % 4) * 64 + Sextet(legal[q + 4])

\* the bytes n characters decode to
Base64Length(n) ==
    3 * (n \div 4) + (IF n % 4 = 2 THEN 1 ELSE IF n % 4 = 3 THEN 2 ELSE 0)

Base64Group(legal) ==
    [k \in 1..Base64Length(Len(legal)) |->
        Base64Byte(legal, 4 * ((k - 1) \div 3), (k - 1) % 3)]

\* Buffer.from(str, 'base64'): characters outside the alphabet are skipped,
\* decoding stops at the first '='; 4 characters give 3 bytes, a trailing
\* group of 2 or 3 characters gives 1 or 2 bytes
Base64Bytes(str) == Base64Group(Base64Legal(str))

HexVal(c) ==
    IF IsDigit(c) THEN c - 48
    ELSE IF c >= 65 /\ c <= 70 THEN c - 55
    ELSE c - 87

\* the bytes of the pairs before the first bad pair
HexPairs(str, bad) ==
    [k \in 1..(IF bad = {} THEN Len(str) \div 2 ELSE Least(bad) - 1) |->
        HexVal(str[2 * k - 1]) * 16 + HexVal(str[2 * k])]

\* Buffer.from(str, 'hex') on a string of even length: one byte per pair of
\* hex digits, cut at the first pair that is not two hex digits
HexBytes(str) ==
    HexPairs(str, {p \in 1..(Len(str) \div 2) :
                      ~(IsHexChar(str[2 * p - 1]) /\ IsHexChar(str[2 * p]))})

\* U+FFFD, the replacement character
REPLACEMENT == 65533

\* buf.toString('utf-8'): a byte below 0x80 is its ASCII character; every
\* byte from 0x80 up is part of a multi-byte sequence or malformed, and is
\* read here as one character outside ASCII
Utf8ToString(bytes) == [k \in 1..Len(bytes) |-> IF bytes[k] < 128 THEN bytes[k] ELSE REPLACEMENT]

\* the JavaScript null of a string-or-null result
NULL == <<-1>>
\* JavaScript truthiness of a string-or-null value
Truthy(v) == v # NULL /\ v # <<>>

Twice(s) == s \o s

\* c.repeat(n)
RECURSIVE Repeat(_, _)
Repeat(c, n) ==
    IF n <= 0 THEN <<>>
    ELSE IF n % 2 = 0 THEN Twice(Repeat(c, n \div 2))
    ELSE <<c>> \o Repeat(c, n - 1)

\* str += '='.repeat(4 - missingPadding)
Pad(str, missingPadding) ==
    IF missingPadding # 0 THEN str \o Repeat(61, 4 - missingPadding) ELSE str

safeBase64Decode(str) == Utf8ToString(Base64Bytes(Pad(str, Len(str) % 4)))

safeHexDecode(str) ==
    IF Len(str) % 2 # 0 THEN NULL
    ELSE Utf8ToString(HexBytes(str))

\* a variant whose special class is the ASCII punctuation only
getCharStats_AsciiSpecial(str) ==
    [total |-> Len(str),
     unique |-> Cardinality(Chars(str)),
     digits |-> Cardinality({i \in 1..Len(str) : IsDigit(str[i])}),
     letters |-> Cardinality({i \in 1..Len(str) : IsLetter(str[i])}),
     special |-> Cardinality({i \in 1..Len(str) :
                                 str[i] < 128 /\ ~(IsLetter(str[i]) \/ IsDigit(str[i]))}),
     entropy |-> shannonEntropy(str)]

getCharStats(str) ==
    [total |-> Len(str),
     unique |-> Cardinality(Chars(str)),
     digits |-> Cardinality({i \in 1..Len(str) : IsDigit(str[i])}),
     letters |-> Cardinality({i \in 1..Len(str) : IsLetter(str[i])}),
     special |-> Cardinality({i \in 1..Len(str) : ~(IsLetter(str[i]) \/ IsDigit(str[i]))}),
     entropy |-> shannonEntropy(str)]

(***************************************************************************)
(* The decoding probes of analyzeInput.                                    *)
(***************************************************************************)
\* a variant of the replacement function that does not wrap around
Rot13_NoWrap(c) ==
    IF IsUpper(c) THEN c + 13
    ELSE IF IsLower(c) THEN c + 13
    ELSE c

\* the replacement function of decodeROT13 on one letter
Rot13(c) ==
    IF IsUpper(c) THEN ((c - 65 + 13) % 26) + 65
    ELSE IF IsLower(c) THEN ((c - 97 + 13) % 26) + 97
    ELSE c

\* str.replace(/[a-zA-Z]/g, ...): the other characters stay
decodeROT13(str) == [i \in 1..Len(str) |-> IF IsLetter(str[i]) THEN Rot13(str[i]) ELSE str[i]]

\* a number above every char code that is tested or stored: the values
\* from it on are one value
Saturate(n) == IF n > 1000000 THEN 1000000 ELSE n

RECURSIVE ParseInt(_, _, _)
\* parseInt(digits, radix) on a string of digits of that radix, from acc
ParseInt(digits, radix, acc) ==
    IF digits = <<>> THEN acc
    ELSE ParseInt(Tail(digits), radix, Saturate(acc * radix + HexVal(Head(digits))))

\* a variant of the range test without its lower end
Printable_NoLowerEnd(charCode) == charCode <= 126

\* charCode >= 32 && charCode <= 126
Printable(charCode) == charCode >= 32 /\ charCode <= 126

\* the char codes of the complete chunks of size characters, in order
ChunkCodes(str, size, radix) ==
    [k \in 1..(Len(str) \div size) |->
        ParseInt(SubSeq(str, size * (k - 1) + 1, size * k), radix, 0)]

\* result.length > 0 ? result : null
NonEmptyOrNull(text) == IF Len(text) > 0 THEN text ELSE NULL

\* the loop over the chunks: the printable ones are appended to result
PrintableChunks(str, size, radix) ==
    NonEmptyOrNull(SelectSeq(ChunkCodes(str, size, radix), Printable))

\* /^[01]+$/.test(str), /^[0-7]+$/.test(str)
OnlyDigitsBelow(str, radix) ==
    /\ Len(str) > 0
    /\ \A i \in 1..Len(str) : str[i] >= 48 /\ str[i] < 48 + radix

decodeBinary(str) ==
    IF ~OnlyDigitsBelow(str, 2) THEN NULL ELSE PrintableChunks(str, 8, 2)

decodeOctal(str) ==
    IF ~OnlyDigitsBelow(str, 8) THEN NULL ELSE PrintableChunks(str, 3, 8)

\* pat occurs in str at index i
MatchAt(str, i, pat) ==
    /\ i + Len(pat) - 1 <= Len(str)
    /\ SubSeq(str, i, i + Len(pat) - 1) = pat

\* /\\u[0-9a-fA-F]{4}/ matches at index i
EscapeAt(str, i) ==
    /\ MatchAt(str, i, <<92, 117>>)
    /\ i + 5 <= Len(str)
    /\ \A j \in 2..5 : IsHexChar(str[i + j])

RECURSIVE Unescape(_, _)
\* str.replace(/\\u[0-9a-fA-F]{4}/g, ...) from index i on
Unescape(str, i) ==
    IF i > Len(str) THEN <<>>
    ELSE IF EscapeAt(str, i)
    THEN <<ParseInt(SubSeq(str, i + 2, i + 5), 16, 0)>> \o Unescape(str, i + 6)
    ELSE <<str[i]>> \o Unescape(str, i + 1)

decodeUnicode(str) ==
    IF ~(\E i \in 1..Len(str) : EscapeAt(str, i)) THEN NULL ELSE Unescape(str, 1)

\* htmlEntities, in insertion order: &amp; &lt; &gt; &quot; &#39; &nbsp;
\* &copy; &reg; &trade;
HtmlEntities ==
    << [entity |-> <<38, 97, 109, 112, 59>>, char |-> <<38>>],
       [entity |-> <<38, 108, 116, 59>>, char |-> <<60>>],
       [entity |-> <<38, 103, 116, 59>>, char |-> <<62>>],
       [entity |-> <<38, 113, 117, 111, 116, 59>>, char |-> <<34>>],
       [entity |-> <<38, 35, 51, 57, 59>>, char |-> <<39>>],
       [entity |-> <<38, 110, 98, 115, 112, 59>>, char |-> <<32>>],
       [entity |-> <<38, 99, 111, 112, 121, 59>>, char |-> <<169>>],
       [entity |-> <<38, 114, 101, 103, 59>>, char |-> <<174>>],
       [entity |-> <<38, 116, 114, 97, 100, 101, 59>>, char |-> <<8482>>] >>

RECURSIVE ReplaceFrom(_, _, _, _)
ReplaceFrom(str, i, pat, rep) ==
    IF i > Len(str) THEN <<>>
    ELSE IF MatchAt(str, i, pat) THEN rep \o ReplaceFrom(str, i + Len(pat), pat, rep)
    ELSE <<str[i]>> \o ReplaceFrom(str, i + 1, pat, rep)

\* result.replace(new RegExp(entity, 'g'), char)
ReplaceAll(str, pat, rep) ==
    IF \E i \in 1..Len(str) : str[i] = pat[1] /\ MatchAt(str, i, pat)
    THEN ReplaceFrom(str, 1, pat, rep)
    ELSE str

RECURSIVE ReplaceEntities(_, _)
\* the loop over Object.entries(htmlEntities)
ReplaceEntities(result, entities) ==
    IF entities = <<>> THEN result
    ELSE ReplaceEntities(ReplaceAll(result, Head(entities).entity, Head(entities).char),
                         Tail(entities))

RECURSIVE DigitRun(_, _)
\* the number of digits of str from index j on
DigitRun(str, j) ==
    IF j <= Len(str) /\ IsDigit(str[j]) THEN 1 + DigitRun(str, j + 1) ELSE 0

\* /&#(\d+);/ matches at index i with a run of digits of length run
NumericAt(str, i, run) ==
    /\ MatchAt(str, i, <<38, 35>>)
    /\ run >= 1
    /\ MatchAt(str, i + 2 + run, <<59>>)

\* code >= 32 && code <= 126 ? String.fromCharCode(code) : match
NumericChar(match, code) == IF Printable(code) THEN <<code>> ELSE match

RECURSIVE ReplaceNumeric(_, _)
\* result.replace(/&#(\d+);/g, ...) from index i on
ReplaceNumeric(str, i) ==
    IF i > Len(str) THEN <<>>
    ELSE IF NumericAt(str, i, DigitRun(str, i + 2))
    THEN NumericChar(SubSeq(str, i, i + 2 + DigitRun(str, i + 2)),
                     ParseInt(SubSeq(str, i + 2, i + 1 + DigitRun(str, i + 2)), 10, 0))
         \o ReplaceNumeric(str, i + 3 + DigitRun(str, i + 2))
    ELSE <<str[i]>> \o ReplaceNumeric(str, i + 1)

ReplaceAllNumeric(str) ==
    IF \E i \in 1..Len(str) : str[i] = 38 /\ NumericAt(str, i, DigitRun(str, i + 2))
    THEN ReplaceNumeric(str, 1)
    ELSE str

\* result !== str ? result : null
ChangedOrNull(result, str) == IF result # str THEN result ELSE NULL

decodeHTML(str) == ChangedOrNull(ReplaceAllNumeric(ReplaceEntities(str, HtmlEntities)), str)

\* the byte of the escape %XX at index k, -1 when there is none
ByteAt(str, k) ==
    IF /\ k + 2 <= Len(str)
       /\ str[k] = 37
       /\ IsHexChar(str[k + 1])
       /\ IsHexChar(str[k + 2])
    THEN HexVal(str[k + 1]) * 16 + HexVal(str[k + 2])
    ELSE -1

\* the number of bytes of the UTF-8 sequence that the byte b leads, 0 when
\* no sequence starts with b
Utf8Length(b) ==
    IF b < 128 THEN 1
    ELSE IF b >= 194 /\ b <= 223 THEN 2
    ELSE IF b >= 224 /\ b <= 239 THEN 3
    ELSE IF b >= 240 /\ b <= 244 THEN 4
    ELSE 0

\* the payload of continuation byte j of the sequence that starts at k
Continuation(str, k, j) == ByteAt(str, k + 3 * j) - 128

\* the code point of the sequence of n bytes led by b at index k
CodePoint(str, k, b, n) ==
    IF n = 2 THEN (b - 192) * 64 + Continuation(str, k, 1)
    ELSE IF n = 3
    THEN (b - 224) * 4096 + Continuation(str, k, 1) * 64 + Continuation(str, k, 2)
    ELSE (b - 240) * 262144 + Continuation(str, k, 1) * 4096
             + Continuation(str, k, 2) * 64 + Continuation(str, k, 3)

\* the UTF-16 code units of code point v
CodeUnits(v) ==
    IF v < 65536 THEN <<v>>
    ELSE <<55296 + ((v - 65536) \div 1024), 56320 + ((v - 65536) % 1024)>>

\* the code units of code point v decoded from n bytes; null when the
\* sequence is overlong, a surrogate or beyond U+10FFFF (URIError)
ValidUnits(n, v) ==
    IF \/ n = 2
       \/ n = 3 /\ v >= 2048 /\ ~(v >= 55296 /\ v <= 57343)
       \/ n = 4 /\ v >= 65536 /\ v <= 1114111
    THEN CodeUnits(v)
    ELSE NULL

MultiByte(str, k, b, n) ==
    IF \/ n = 0
       \/ \E j \in 1..(n - 1) : ~(ByteAt(str, k + 3 * j) >= 128 /\ ByteAt(str, k + 3 * j) <= 191)
    THEN NULL
    ELSE ValidUnits(n, CodePoint(str, k, b, n))

\* the code units of the escape whose first byte is b; null on URIError
UnitsOf(str, k, b) ==
    IF b < 0 THEN NULL
    ELSE IF b < 128 THEN <<b>>
    ELSE MultiByte(str, k, b, Utf8Length(b))

\* head followed by rest, null when either is (the URIError propagates)
Prepend(head, rest) == IF head = NULL \/ rest = NULL THEN NULL ELSE head \o rest

RECURSIVE DecodeFrom(_, _)
\* decodeURIComponent from index k on
DecodeFrom(str, k) ==
    IF k > Len(str) THEN <<>>
    ELSE IF str[k] # 37 THEN Prepend(<<str[k]>>, DecodeFrom(str, k + 1))
    ELSE Prepend(UnitsOf(str, k, ByteAt(str, k)),
                 DecodeFrom(str, k + 3 * Utf8Length(ByteAt(str, k))))

\* decodeURIComponent(str), null when it throws URIError
decodeURL(str) ==
    IF \E k \in 1..Len(str) : str[k] = 37 THEN DecodeFrom(str, 1) ELSE str

(***************************************************************************)
(* Inputs.                                                                 *)
(***************************************************************************)
\* "$", "3", "a"
Alphabet == {36, 51, 97}

RECURSIVE StringsUpTo(_)
StringsUpTo(n) ==
    IF n = 0 THEN {<<>>}
    ELSE LET shorter == StringsUpTo(n - 1)
         IN  shorter \cup {Append(s, c) : s \in {t \in shorter : Len(t) = n - 1}, c \in Alphabet}

\* '5d41402abc4b2a76b9719d911017c592'
MD5_INPUT == <<53, 100, 52, 49, 52, 48, 50, 97, 98, 99, 52, 98, 50, 97, 55, 54, 98, 57, 55, 49, 57, 100, 57, 49, 49, 48, 49, 55, 99, 53, 57, 50>>
\* '$2b$12$LQv3c1yqBWVHxkd0LHAkCOYz6TtxMQJqhN8/LewdBPj4ZbC8K7K2'
BCRYPT_INPUT == <<36, 50, 98, 36, 49, 50, 36, 76, 81, 118, 51, 99, 49, 121, 113, 66, 87, 86, 72, 120, 107, 100, 48, 76, 72, 65, 107, 67, 79, 89, 122, 54, 84, 116, 120, 77, 81, 74, 113, 104, 78, 56, 47, 76, 101, 119, 100, 66, 80, 106, 52, 90, 98, 67, 56, 75, 55, 75, 50>>
\* 'SGVsbG8gV29ybGQ='
BASE64_INPUT == <<83, 71, 86, 115, 98, 71, 56, 103, 86, 50, 57, 121, 98, 71, 81, 61>>
\* '48656c6c6f20576f726c64'
HEX_INPUT == <<52, 56, 54, 53, 54, 99, 54, 99, 54, 102, 50, 48, 53, 55, 54, 102, 55, 50, 54, 99, 54, 52>>
\* "MTIz", the base64 text of "123"
B64_OF_DIGITS == <<77, 84, 73, 122>>
\* a string with a character outside ASCII
NON_ASCII_INPUT == <<97, 233>>

\* inputs for the decoding probes
\* 'Uryyb'
ROT13_INPUT == <<85, 114, 121, 121, 98>>
\* '0100100001100101011011000110110001101111'
BINARY_INPUT == <<48, 49, 48, 48, 49, 48, 48, 48, 48, 49, 49, 48, 48, 49, 48, 49, 48, 49, 49, 48, 49, 49, 48, 48, 48, 49, 49, 48, 49, 49, 48, 48, 48, 49, 49, 48, 49, 49, 49, 49>>
\* '110145'
OCTAL_INPUT == <<49, 49, 48, 49, 52, 53>>
\* '\u0041'
UNICODE_INPUT == <<92, 117, 48, 48, 52, 49>>
\* '&amp;lt;'
HTML_INPUT == <<38, 97, 109, 112, 59, 108, 116, 59>>
\* '%24'
URL_INPUT == <<37, 50, 52>>
\* '%'
BAD_URL_INPUT == <<37>>
MAX_INPUT_LENGTH == 10000
\* '$'.repeat(10000): the longest valid input
LONGEST_INPUT == Repeat(36, MAX_INPUT_LENGTH)
\* 'a'.repeat(10001)
TOO_LONG_INPUT == Repeat(97, MAX_INPUT_LENGTH + 1)

(***************************************************************************)
(* Pattern descriptors (interface HashPattern) and the catalogs a pattern  *)
(* file can hold.  An absent optional field is the falsy value of its      *)
(* type: length 0, charset "", regex "", no prefixes, no suffixes.         *)
(***************************************************************************)
\* a catalog entry whose value is the JSON null
NULL_PATTERN == [isNull |-> TRUE]

\* regex texts of the descriptors
RE_HEX32 == "^[a-fA-F0-9]{32}$"
RE_LOWER_HEX == "^[0-9a-f]+$"
\* not a regular expression: new RegExp throws SyntaxError
RE_INVALID == "["

PatternPool ==
    << [id |-> "md5",
        pattern |-> [name |-> "MD5", length |-> 32, charset |-> "hex",
                     prefixes |-> <<>>, suffixes |-> <<>>, regex |-> ""]],
       [id |-> "ntlm",
        pattern |-> [name |-> "NTLM", length |-> 32, charset |-> "hex",
                     prefixes |-> <<>>, suffixes |-> <<>>, regex |-> RE_HEX32]],
       [id |-> "crc16",
        pattern |-> [name |-> "CRC-16", length |-> 4, charset |-> "hex",
                     prefixes |-> <<>>, suffixes |-> <<>>, regex |-> RE_LOWER_HEX]],
       \* prefixes "$2b$", "33", "3"; suffix "$"
       [id |-> "crypt",
        pattern |-> [name |-> "Modular crypt", length |-> 60, charset |-> "base64",
                     prefixes |-> << <<36, 50, 98, 36>>, <<51, 51>>, <<51>> >>,
                     suffixes |-> << <<36>> >>, regex |-> RE_INVALID]],
       [id |-> "broken", pattern |-> NULL_PATTERN] >>

RECURSIVE InjectiveSeqs(_)
\* the sequences of at most n distinct indices of the pool
InjectiveSeqs(n) ==
    IF n = 0 THEN {<<>>}
    ELSE LET shorter == InjectiveSeqs(n - 1)
             longest == {t \in shorter : Len(t) = n - 1}
             Fresh(s) == {i \in 1..Len(PatternPool) : \A k \in 1..Len(s) : s[k] # i}
         IN  shorter \cup UNION {{Append(s, i) : i \in Fresh(s)} : s \in longest}

\* what Object.entries yields for a parsed pattern file: keys are unique
Catalogs == {[k \in 1..Len(s) |-> PatternPool[s[k]]] : s \in InjectiveSeqs(MaxCatalog)}

(***************************************************************************)
(* detectCandidates: the score of one descriptor.                          *)
(***************************************************************************)
\* new RegExp(text) succeeds
RegExpCompiles(text) == text # RE_INVALID

\* regex.test(input) for the regex texts of the descriptors
RegExpTest(text, input) ==
    IF text = RE_HEX32
    THEN Len(input) = 32 /\ \A i \in 1..Len(input) : IsHexChar(input[i])
    ELSE IF text = RE_LOWER_HEX
    THEN Len(input) > 0 /\ \A i \in 1..Len(input) :
             IsDigit(input[i]) \/ (input[i] >= 97 /\ input[i] <= 102)
    ELSE FALSE

startsWith(input, prefix) ==
    Len(prefix) <= Len(input) /\ SubSeq(input, 1, Len(prefix)) = prefix

endsWith(input, suffix) ==
    Len(suffix) <= Len(input)
    /\ SubSeq(input, Len(input) - Len(suffix) + 1, Len(input)) = suffix

\* the least index in hits, 0 when there is none
FirstOf(hits) == IF hits = {} THEN 0 ELSE Least(hits)

Abs(n) == IF n < 0 THEN -n ELSE n

Signal(w, kind, arg) == [w |-> w, kind |-> kind, arg |-> arg]

\* the charset of a decoding, "" when the decoding is null or empty (falsy)
DecodedCharset(decoded) == IF Truthy(decoded) THEN getCharset(decoded) ELSE ""

\* what the loop body reads of the input besides its text: charset and
\* entropy, computed once before the loop, and the charsets of
\* safeBase64Decode(input) and safeHexDecode(input), computed in each
\* iteration with the same result
InputFacts(input) ==
    [charset |-> getCharset(input),
     entropy |-> shannonEntropy(input),
     base64 |-> DecodedCharset(safeBase64Decode(input)),
     hex |-> DecodedCharset(safeHexDecode(input))]

\* 1. regex
RegexSignals(input, pattern) ==
    IF pattern.regex # "" /\ RegExpCompiles(pattern.regex) /\ RegExpTest(pattern.regex, input)
    THEN <<Signal(F0_4, "Regex pattern match", <<>>)>>
    ELSE <<>>

\* index in pattern.prefixes of the prefix the loop breaks on, 0 for none
MatchedPrefix(input, pattern) ==
    FirstOf({i \in 1..Len(pattern.prefixes) : startsWith(input, pattern.prefixes[i])})

\* the signal of the matched prefix, whose index is m
PrefixSignal(pattern, m) ==
    IF m # 0 THEN <<Signal(F0_25, "Prefix match", pattern.prefixes[m])>> ELSE <<>>

\* a variant of the loop over the prefixes without its break
PrefixSignals_NoBreak(input, pattern) ==
    LET hits == SelectSeq(pattern.prefixes, LAMBDA prefix : startsWith(input, prefix))
    IN  [k \in 1..Len(hits) |-> Signal(F0_25, "Prefix match", hits[k])]

\* 2. prefix
PrefixSignals(input, pattern) == PrefixSignal(pattern, MatchedPrefix(input, pattern))

\* 3. length
LengthSignals(pattern, inputLength, lengthDiff) ==
    IF pattern.length = 0 THEN <<>>
    ELSE IF lengthDiff = 0
    THEN <<Signal(F0_4, "Exact length match", <<pattern.length>>)>>
    ELSE IF lengthDiff <= 4
    THEN <<Signal(F0_3, "Fuzzy length match", <<pattern.length, inputLength, lengthDiff>>)>>
    ELSE IF lengthDiff <= 8
    THEN <<Signal(F0_1, "Near length match", <<pattern.length, inputLength, lengthDiff>>)>>
    ELSE <<>>

\* a variant whose guard does not read charsetMatch
VariationSignals_IgnoresMatch(pattern, facts, charsetMatch) ==
    IF pattern.charset = "hex"
       /\ (facts.charset = "hex" \/ facts.charset = "alphanum")
    THEN <<Signal(F0_1, "Charset variation match", <<>>)>>
    ELSE <<>>

\* the minor-variation bonus, given charsetMatch
VariationSignals(pattern, facts, charsetMatch) ==
    IF ~charsetMatch /\ pattern.charset = "hex"
       /\ (facts.charset = "hex" \/ facts.charset = "alphanum")
    THEN <<Signal(F0_1, "Charset variation match", <<>>)>>
    ELSE <<>>

\* 4. charset
CharsetSignals(pattern, facts) ==
    IF pattern.charset = "" THEN <<>>
    ELSE (IF pattern.charset = facts.charset
          THEN <<Signal(F0_2, "Charset match (" \o facts.charset \o ")", <<>>)>>
          ELSE <<>>)
         \o (IF pattern.charset = facts.base64
             THEN <<Signal(F0_15, "Decoded charset match (" \o pattern.charset \o ")", <<>>)>>
             ELSE <<>>)
         \o (IF pattern.charset = facts.hex
             THEN <<Signal(F0_15, "Decoded charset match (" \o pattern.charset \o ")", <<>>)>>
             ELSE <<>>)
         \o VariationSignals(pattern, facts,
                             pattern.charset \in {facts.charset, facts.base64, facts.hex})

\* 5. suffix; m is the index of the first suffix the input ends with
SuffixSignals(pattern, m) ==
    IF m # 0 THEN <<Signal(F0_1, "Suffix match", pattern.suffixes[m])>> ELSE <<>>

\* Math.min(4.0, t) then Math.max(2.5, .) in micro-bits
Clamp(t) == IF t > 4000000 THEN 4000000 ELSE IF t < 2500000 THEN 2500000 ELSE t

\* Math.max(2.5, Math.min(4.0, 3.0 + inputLength / 50)) in micro-bits
EntropyThreshold(inputLength) == Clamp(3000000 + 20000 * inputLength)

\* 6. entropy
EntropySignals(inputLength, facts) ==
    IF facts.entropy > EntropyThreshold(inputLength)
    THEN <<Signal(F0_1, "High entropy", <<>>)>>
    ELSE <<>>

\* 7. decodable content
DecodingSignals(pattern, facts) ==
    IF facts.base64 # "" \/ facts.hex # ""
    THEN <<Signal(F0_1, "Decodable content", <<>>)>>
         \o (IF facts.base64 # "" /\ pattern.charset # "" /\ pattern.charset = facts.base64
             THEN <<Signal(F0_05, "Decoded content charset match", <<>>)>>
             ELSE <<>>)
         \o (IF facts.hex # "" /\ pattern.charset # "" /\ pattern.charset = facts.hex
             THEN <<Signal(F0_05, "Decoded content charset match", <<>>)>>
             ELSE <<>>)
    ELSE <<>>

\* 8. signature boost: names pattern.prefixes[0]
SignatureSignals(pattern, hasPrefixMatch) ==
    IF hasPrefixMatch /\ Len(pattern.prefixes) > 0
    THEN <<Signal(F0_3, "Signature match", pattern.prefixes[1])>>
    ELSE <<>>

\* a variant that adds the signature boost right after the prefix
Signals_SignatureEarly(input, pattern, facts) ==
    RegexSignals(input, pattern)
    \o PrefixSignals(input, pattern)
    \o SignatureSignals(pattern, MatchedPrefix(input, pattern) # 0)
    \o LengthSignals(pattern, Len(input), Abs(Len(input) - pattern.length))
    \o CharsetSignals(pattern, facts)
    \o SuffixSignals(pattern,
                     FirstOf({i \in 1..Len(pattern.suffixes) : endsWith(input, pattern.suffixes[i])}))
    \o EntropySignals(Len(input), facts)
    \o DecodingSignals(pattern, facts)

\* the signals of one descriptor, in the order the loop body adds them
Signals(input, pattern, facts) ==
    RegexSignals(input, pattern)
    \o PrefixSignals(input, pattern)
    \o LengthSignals(pattern, Len(input), Abs(Len(input) - pattern.length))
    \o CharsetSignals(pattern, facts)
    \o SuffixSignals(pattern,
                     FirstOf({i \in 1..Len(pattern.suffixes) : endsWith(input, pattern.suffixes[i])}))
    \o EntropySignals(Len(input), facts)
    \o DecodingSignals(pattern, facts)
    \o SignatureSignals(pattern, MatchedPrefix(input, pattern) # 0)

RECURSIVE SumWeights(_, _)
\* score += w for each signal in turn, starting from acc
SumWeights(signals, acc) ==
    IF signals = <<>> THEN acc
    ELSE SumWeights(Tail(signals), FAdd(acc, Head(signals).w))

\* a variant with a lower threshold
Included_Low(score) == FGe(score, F0_1)

\* the inclusion threshold
Included(score) == FGe(score, F0_25)

\* a variant whose green tier starts above the clamp
Color_GreenAboveOne(score) ==
    IF FGt(score, F1_0) THEN "green"
    ELSE IF FGe(score, F0_55) THEN "yellow"
    ELSE "red"

\* a variant whose yellow tier starts above 0.55
Color_YellowAbove(score) ==
    IF FGt(score, F0_8) THEN "green"
    ELSE IF FGt(score, F0_55) THEN "yellow"
    ELSE "red"

\* score > 0.8 ? 'green' : score >= 0.55 ? 'yellow' : 'red'
Color(score) ==
    IF FGt(score, F0_8) THEN "green"
    ELSE IF FGe(score, F0_55) THEN "yellow"
    ELSE "red"

\* a variant that stores the raw sum, without Math.min
StoredScore_Unclamped(score) == score

\* the score stored in a candidate
StoredScore(score) == FMin(score, F1_0)

\* reasons: the evidence strings of the signals
Reasons(signals) ==
    [k \in 1..Len(signals) |-> [kind |-> signals[k].kind, arg |-> signals[k].arg]]

\* the end of one iteration: the local score (the raw sum), and the candidate
\* pushed when the score reaches the threshold
Scored(entry, signals, score) ==
    [id |-> entry.id,
     score |-> score,
     signals |-> signals,
     included |-> Included(score),
     candidate |-> [id |-> entry.id, name |-> entry.pattern.name,
                    score |-> StoredScore(score), color |-> Color(score),
                    reasons |-> Reasons(signals)]]

SumSignals(entry, signals) == Scored(entry, signals, SumWeights(signals, F0_0))

\* one iteration of the loop over the catalog
ScoreEntry(input, facts, entry) == SumSignals(entry, Signals(input, entry.pattern, facts))

(***************************************************************************)
(* detectCandidates: the loop over the catalog, the ranking and the cut.   *)
(***************************************************************************)
MAX_RESULTS == 3

\* a variant without the try around new RegExp: an invalid regex text ends
\* the loop like a null descriptor does
ScannedEntries_RegexThrows(catalog) ==
    UpToFirst(catalog, {k \in 1..Len(catalog) :
                           \/ catalog[k].pattern = NULL_PATTERN
                           \/ catalog[k].pattern.regex = RE_INVALID})

\* the entries of the catalog before its first null descriptor: reading
\* pattern.regex of null throws TypeError and ends the loop
ScannedEntries(catalog) ==
    UpToFirst(catalog, {k \in 1..Len(catalog) : catalog[k].pattern = NULL_PATTERN})

\* the loop threw
ScanThrows(catalog) == Len(ScannedEntries(catalog)) < Len(catalog)

\* the loop locals of every iteration that ran, in catalog order
ScoreEntries(entries, input, facts) ==
    [k \in 1..Len(entries) |-> ScoreEntry(input, facts, entries[k])]

ScoreCatalog(catalog, input) ==
    ScoreEntries(ScannedEntries(catalog), input, InputFacts(input))

\* candidates: what the iterations pushed, in catalog order
Pushed(kept) == [k \in 1..Len(kept) |-> kept[k].candidate]

Candidates(scores) == Pushed(SelectSeq(scores, LAMBDA e : e.included))

\* c placed behind every element whose score is not below its own
InsertAt(sorted, c, at) ==
    SubSeq(sorted, 1, at - 1) \o <<c>> \o SubSeq(sorted, at, Len(sorted))

\* a variant of an unstable sort: c goes in front of its equals too
Behind_Unstable(sorted, c) == {k \in 1..Len(sorted) : FLe(sorted[k].score, c.score)}

\* the indices of sorted that c goes in front of
Behind(sorted, c) == {k \in 1..Len(sorted) : FLt(sorted[k].score, c.score)}

InsertBefore(sorted, c, behind) ==
    InsertAt(sorted, c, IF behind = {} THEN Len(sorted) + 1 ELSE Least(behind))

InsertByScore(sorted, c) == InsertBefore(sorted, c, Behind(sorted, c))

RECURSIVE SortFrom(_, _)
SortFrom(rest, sorted) ==
    IF rest = <<>> THEN sorted
    ELSE SortFrom(Tail(rest), InsertByScore(sorted, Head(rest)))

\* candidates.sort((a, b) => b.score - a.score): descending and stable
SortCandidates(candidates) == SortFrom(candidates, <<>>)

\* a variant without the slice
TopCandidates_Uncut(sorted) == sorted

\* sortedCandidates.slice(0, 3)
TopCandidates(sorted) ==
    SubSeq(sorted, 1, IF Len(sorted) < MAX_RESULTS THEN Len(sorted) ELSE MAX_RESULTS)

\* detectCandidates(input) for a string, given the loop's iterations
detectCandidates(catalog, input, scores) ==
    IF input = <<>> THEN <<>>
    ELSE IF ScanThrows(catalog) THEN <<>>
    ELSE TopCandidates(SortCandidates(Candidates(scores)))

(***************************************************************************)
(* analyzeInput.  An argument is a JavaScript value: t is its typeof       *)
(* ("string", "number", "undefined") or "null", s the text of a string.    *)
(***************************************************************************)
JsString(s) == [t |-> "string", s |-> s]
JS_NULL == [t |-> "null", s |-> <<>>]
JS_UNDEFINED == [t |-> "undefined", s |-> <<>>]
JS_NUMBER == [t |-> "number", s |-> <<>>]

Reason(kind) == [kind |-> kind, arg |-> <<>>]

\* {}: an object without keys
EMPTY_OBJECT == [key \in {} |-> <<>>]

\* no record: the call threw, or none was made
NO_RECORD ==
    [input |-> JS_UNDEFINED, results |-> <<>>,
     stats |-> [total |-> 0, unique |-> 0, digits |-> 0, letters |-> 0,
                special |-> 0, entropy |-> 0],
     decoding |-> EMPTY_OBJECT, freq |-> EMPTY_OBJECT]

\* the keys of the decoding object, in the order the probes are tried
ProbeKeys == <<"base64", "hex", "rot13", "url", "binary", "octal", "unicode", "html">>

\* what the probe of a key returns on the input
Probe(key, input) ==
    CASE key = "base64" -> safeBase64Decode(input)
      [] key = "hex" -> safeHexDecode(input)
      [] key = "rot13" -> decodeROT13(input)
      [] key = "url" -> decodeURL(input)
      [] key = "binary" -> decodeBinary(input)
      [] key = "octal" -> decodeOctal(input)
      [] key = "unicode" -> decodeUnicode(input)
      [] key = "html" -> decodeHTML(input)

\* a variant that stores what every probe returns
Decoding_StoresAll(input) ==
    [key \in {ProbeKeys[k] : k \in 1..Len(ProbeKeys)} |-> Probe(key, input)]

\* if (decoded) decoding.key = decoded, for each probe
Decoding(input) ==
    [key \in {ProbeKeys[k] : k \in {j \in 1..Len(ProbeKeys) : Truthy(Probe(ProbeKeys[j], input))}}
        |-> Probe(key, input)]

\* the keys 'total', 'unique', 'digits', 'letters', 'special' of stats
KEY_TOTAL == <<116, 111, 116, 97, 108>>
KEY_UNIQUE == <<117, 110, 105, 113, 117, 101>>
KEY_DIGITS == <<100, 105, 103, 105, 116, 115>>
KEY_LETTERS == <<108, 101, 116, 116, 101, 114, 115>>
KEY_SPECIAL == <<115, 112, 101, 99, 105, 97, 108>>

\* Object.fromEntries(Object.entries(stats).filter(([key]) => key !== 'entropy'))
Freq(stats) ==
    [key \in {KEY_TOTAL, KEY_UNIQUE, KEY_DIGITS, KEY_LETTERS, KEY_SPECIAL} |->
        CASE key = KEY_TOTAL -> stats.total
          [] key = KEY_UNIQUE -> stats.unique
          [] key = KEY_DIGITS -> stats.digits
          [] key = KEY_LETTERS -> stats.letters
          [] key = KEY_SPECIAL -> stats.special]

\* const result = { input, results, stats, decoding, freq }
Record(arg, results, stats) ==
    [input |-> arg, results |-> results, stats |-> stats,
     decoding |-> Decoding(arg.s), freq |-> Freq(stats)]

UNKNOWN_RESULT ==
    [id |-> "unknown", name |-> "Unknown", score |-> F0_0, color |-> "red",
     reasons |-> <<Reason("no patterns matched")>>]

ErrorResult(message) ==
    [id |-> "error", name |-> "Analysis Error", score |-> F0_0, color |-> "red",
     reasons |-> <<Reason("analysis failed: " \o message)>>]

\* the fallback record of the catch block
FallbackRecord(arg, message) ==
    [input |-> arg,
     results |-> <<ErrorResult(message)>>,
     stats |-> [total |-> Len(arg.s),
                unique |-> Cardinality(Chars(arg.s)),
                digits |-> Cardinality({i \in 1..Len(arg.s) : IsDigit(arg.s[i])}),
                letters |-> Cardinality({i \in 1..Len(arg.s) : IsLetter(arg.s[i])}),
                special |-> Cardinality({i \in 1..Len(arg.s) :
                                            ~(IsLetter(arg.s[i]) \/ IsDigit(arg.s[i]))}),
                entropy |-> 0],
     decoding |-> EMPTY_OBJECT,
     freq |-> EMPTY_OBJECT]

\* a variant that pushes no sentinel
WithUnknown_Missing(results) == results

\* results after the 'unknown' sentinel is pushed on an empty list
WithUnknown(results) == IF Len(results) = 0 THEN <<UNKNOWN_RESULT>> ELSE results

\* the input is rejected by the validation at the head of the try block
InvalidInput(input) == input = <<>>
TooLong(input) == Len(input) > MAX_INPUT_LENGTH

\* a call that returns record after the scoring loop ran the iterations scored
Returned(record, scored) == [kind |-> "returned", record |-> record, scored |-> scored]

\* the try block past the validation: scores are the loop's iterations
Analyzed(catalog, arg, scores) ==
    Returned(Record(arg, WithUnknown(detectCandidates(catalog, arg.s, scores)),
                    getCharStats(arg.s)),
             scores)

\* what a call of analyzeInput(arg) does: it returns a record, or throws.
\* input.substring throws TypeError on null, undefined and a number, inside
\* the try block; the catch block then reads input.length (TypeError on null
\* and undefined) and builds new Set(input) (TypeError on a number), outside
\* any try block.
analyzeInput(catalog, arg) ==
    IF arg.t # "string"
    THEN [kind |-> "threw", record |-> NO_RECORD, scored |-> <<>>]
    ELSE IF InvalidInput(arg.s)
    THEN Returned(FallbackRecord(arg, "Invalid input: must be a non-empty string"), <<>>)
    ELSE IF TooLong(arg.s)
    THEN Returned(FallbackRecord(arg, "Input too long: maximum 10,000 characters allowed"), <<>>)
    ELSE Analyzed(catalog, arg, ScoreCatalog(catalog, arg.s))

(***************************************************************************)
(* The state machine: the module variable hashPatterns, the startup load   *)
(* and calls of analyzeInput.                                              *)
(***************************************************************************)
VARIABLES
    hashPatterns,   \* the catalog, in Object.entries order
    loadState,      \* "pending", "loaded" or "failed": loadHashPatterns()
    pc,             \* "idle", "called", "returned" or "threw"
    arg,            \* the argument of the call in progress
    result,         \* the record the last call returned
    scored,         \* the scoring loop's iterations in the last call
    memo,           \* a record returned by an earlier call, kept for comparison
    request,        \* the body of the POST /api/analyze request being handled
    response,       \* what the handler did for it
    served,         \* the catalogs that handled requests were scored against
    applied,        \* the string a utility function is applied to
    returned        \* what the utility function returned

\* the state of the express server
serverVars == <<request, response, served>>

\* the state of a utility function applied on its own
utilVars == <<applied, returned>>

vars == <<hashPatterns, loadState, pc, arg, result, scored, memo, serverVars, utilVars>>

\* nothing kept, nothing handled, nothing applied
NONE == [none |-> TRUE]

Arguments ==
    {JsString(s) : s \in StringsUpTo(MaxInputLen)}
    \cup {JsString(MD5_INPUT), JsString(BCRYPT_INPUT), JsString(BASE64_INPUT),
          JsString(HEX_INPUT), JsString(B64_OF_DIGITS), JsString(NON_ASCII_INPUT),
          JsString(ROT13_INPUT), JsString(BINARY_INPUT), JsString(OCTAL_INPUT),
          JsString(UNICODE_INPUT), JsString(HTML_INPUT), JsString(URL_INPUT),
          JsString(BAD_URL_INPUT),
          JsString(LONGEST_INPUT), JsString(TOO_LONG_INPUT)}
    \cup {JS_NULL, JS_UNDEFINED, JS_NUMBER}

Init ==
    /\ hashPatterns = <<>>
    /\ loadState = "pending"
    /\ pc = "idle"
    /\ arg = JS_UNDEFINED
    /\ result = NO_RECORD
    /\ scored = <<>>
    /\ memo = NONE
    /\ request = NONE
    /\ response = NONE
    /\ served = {}
    /\ applied = <<>>
    /\ returned = NONE

\* loadHashPatterns: readJson resolves with the parsed file
LoadSucceeds(data) ==
    /\ loadState = "pending"
    /\ pc = "idle"
    /\ hashPatterns' = data
    /\ loadState' = "loaded"
    /\ UNCHANGED <<pc, arg, result, scored, memo, serverVars, utilVars>>

\* a variant whose catch block leaves a descriptor in the catalog
LoadFails_KeepsData ==
    /\ loadState = "pending"
    /\ pc = "idle"
    /\ hashPatterns' = <<PatternPool[1]>>
    /\ loadState' = "failed"
    /\ UNCHANGED <<pc, arg, result, scored, memo, serverVars, utilVars>>

\* loadHashPatterns: reading or parsing the file fails
LoadFails ==
    /\ loadState = "pending"
    /\ pc = "idle"
    /\ hashPatterns' = <<>>
    /\ loadState' = "failed"
    /\ UNCHANGED <<pc, arg, result, scored, memo, serverVars, utilVars>>

\* a caller invokes analyzeInput(a)
Call(a) ==
    /\ pc = "idle"
    /\ arg' = a
    /\ pc' = "called"
    /\ UNCHANGED <<hashPatterns, loadState, result, scored, memo, serverVars, utilVars>>

\* a variant whose scoring loop consumes the first descriptor of the catalog
AnalyzeInput_Consumes ==
    /\ pc = "called"
    /\ \E out \in {analyzeInput(hashPatterns, arg)} :
           /\ pc' = out.kind
           /\ result' = out.record
           /\ scored' = out.scored
    /\ hashPatterns' = IF hashPatterns = <<>> THEN <<>> ELSE Tail(hashPatterns)
    /\ UNCHANGED <<loadState, arg, memo, serverVars, utilVars>>

\* the body of analyzeInput runs to its return or throw
AnalyzeInput ==
    /\ pc = "called"
    /\ \E out \in {analyzeInput(hashPatterns, arg)} :
           /\ pc' = out.kind
           /\ result' = out.record
           /\ scored' = out.scored
    /\ UNCHANGED <<hashPatterns, loadState, arg, memo, serverVars, utilVars>>

\* the caller is done with the outcome
Return ==
    /\ pc \in {"returned", "threw"}
    /\ pc' = "idle"
    /\ arg' = JS_UNDEFINED
    /\ result' = NO_RECORD
    /\ scored' = <<>>
    /\ UNCHANGED <<hashPatterns, loadState, memo, serverVars, utilVars>>

Next ==
    \/ \E data \in Catalogs : LoadSucceeds(data)
    \/ LoadFails
    \/ \E a \in Arguments : Call(a)
    \/ AnalyzeInput
    \/ Return

Spec == Init /\ [][Next]_vars

(***************************************************************************)
(* Ranking.  A pattern file whose descriptors reach raw sums of 1.0 and    *)
(* more on the MD5 vector: three that differ in their names only, one that *)
(* also has a prefix, and one that has a prefix and nothing else.          *)
(***************************************************************************)
RankPool ==
    << [id |-> "ntlm",
        pattern |-> [name |-> "NTLM", length |-> 32, charset |-> "hex",
                     prefixes |-> <<>>, suffixes |-> <<>>, regex |-> RE_HEX32]],
       [id |-> "lm",
        pattern |-> [name |-> "LM", length |-> 32, charset |-> "hex",
                     prefixes |-> <<>>, suffixes |-> <<>>, regex |-> RE_HEX32]],
       [id |-> "md4",
        pattern |-> [name |-> "MD4", length |-> 32, charset |-> "hex",
                     prefixes |-> <<>>, suffixes |-> <<>>, regex |-> RE_HEX32]],
       \* prefix "5"
       [id |-> "tagged",
        pattern |-> [name |-> "Tagged", length |-> 32, charset |-> "hex",
                     prefixes |-> << <<53>> >>, suffixes |-> <<>>, regex |-> RE_HEX32]],
       [id |-> "bare",
        pattern |-> [name |-> "Bare", length |-> 0, charset |-> "",
                     prefixes |-> << <<53>> >>, suffixes |-> <<>>, regex |-> ""]] >>

\* the pattern files of at most MaxCatalog of these descriptors, in any order
RankCatalogs ==
    {[k \in 1..Len(s) |-> RankPool[s[k]]] :
        s \in {q \in InjectiveSeqs(MaxCatalog) : \A k \in 1..Len(q) : q[k] <= Len(RankPool)}}

\* '0d41402abc4b2a76b9719d911017c592'
OTHER_MD5_INPUT == <<48>> \o Tail(MD5_INPUT)

\* U+1F600 twice: two surrogate pairs
PAIRS_INPUT == <<55357, 56832, 55357, 56832>>
\* a low surrogate followed by a high one: two lone surrogates
LONE_INPUT == <<56832, 55357>>

RankArguments ==
    {JsString(MD5_INPUT), JsString(OTHER_MD5_INPUT), JsString(HEX_INPUT),
     JsString(<<53>>), JsString(BCRYPT_INPUT), JsString(NON_ASCII_INPUT),
     JsString(PAIRS_INPUT), JsString(LONE_INPUT),
     JsString(<<>>), JsString(TOO_LONG_INPUT)}

RankNext ==
    \/ \E data \in RankCatalogs : LoadSucceeds(data)
    \/ LoadFails
    \/ \E a \in RankArguments : Call(a)
    \/ AnalyzeInput
    \/ Return

RankSpec == Init /\ [][RankNext]_vars

(***************************************************************************)
(* Repeated calls.  A caller keeps the first record it was given, together *)
(* with the catalog the module held then, and goes on calling.             *)
(***************************************************************************)
\* the catalogs that start the pattern file
StartingCatalogs == {c \in Catalogs : c = SubSeq(PatternPool, 1, Len(c))}

PurityArguments == {JsString(s) : s \in StringsUpTo(MaxInputLen)} \cup {JS_NULL}

\* the caller keeps the record and is done with the call
Keep ==
    /\ pc = "returned"
    /\ memo = NONE
    /\ memo' = [loadState |-> loadState, catalog |-> hashPatterns,
                arg |-> arg, record |-> result]
    /\ pc' = "idle"
    /\ arg' = JS_UNDEFINED
    /\ result' = NO_RECORD
    /\ scored' = <<>>
    /\ UNCHANGED <<hashPatterns, loadState, serverVars, utilVars>>

PurityNext ==
    \/ \E data \in StartingCatalogs : LoadSucceeds(data)
    \/ LoadFails
    \/ \E a \in PurityArguments : Call(a)
    \/ AnalyzeInput
    \/ Return
    \/ Keep

PuritySpec == Init /\ [][PurityNext]_vars

(***************************************************************************)
(* The express server: POST /api/analyze.  The body of a request is        *)
(* undefined when the request carried none, else the parsed JSON object    *)
(* with its input and inputs properties (undefined when missing).          *)
(***************************************************************************)
JS_FALSE == [t |-> "boolean", s |-> <<>>]
JsArray(items) == [t |-> "array", s |-> <<>>, items |-> items]
JsBody(input, inputs) ==
    [t |-> "object", s |-> <<>>, input |-> input, inputs |-> inputs]

\* typeof v
TypeOf(v) == IF v.t \in {"null", "array", "object"} THEN "object" ELSE v.t

\* !v is false; JS_NUMBER stands for a number other than 0 and NaN
IsTruthy(v) ==
    CASE v.t \in {"undefined", "null", "boolean"} -> FALSE
      [] v.t = "string" -> v.s # <<>>
      [] OTHER -> TRUE

\* WhiteSpace and LineTerminator code units
IsWhitespace(c) ==
    \/ c \in 9..13
    \/ c \in {32, 160, 5760, 8232, 8233, 8239, 8287, 12288, 65279}
    \/ c \in 8192..8202

RECURSIVE SkipLeft(_, _)
SkipLeft(text, i) ==
    IF i > Len(text) \/ ~IsWhitespace(text[i]) THEN i ELSE SkipLeft(text, i + 1)

RECURSIVE SkipRight(_, _)
SkipRight(text, i) ==
    IF i < 1 \/ ~IsWhitespace(text[i]) THEN i ELSE SkipRight(text, i - 1)

\* String.prototype.trim
Trim(text) == SubSeq(text, SkipLeft(text, 1), SkipRight(text, Len(text)))

\* res.status(status).json({ success: false, error })
Failure(status, error) == [status |-> status, success |-> FALSE, error |-> error]

\* the data of a response: one analysis record, or an array of them
OneRecord(record) == [array |-> FALSE, records |-> <<record>>]
ArrayOf(records) == [array |-> TRUE, records |-> records]

\* res.json({ success: true, data })
Success(data) == [status |-> 200, success |-> TRUE, data |-> data]

\* a run of the handler: the responses it sent and the strings it passed to
\* analyzeInput, both in order
Handled(sent, calls) == [sent |-> sent, calls |-> calls]

\* the catch block
InternalError == Failure(500, "Internal server error")

\* a variant of the single-input branch that answers without returning and
\* falls through to the final rejection
Single_FallsThrough(catalog, input) ==
    Handled(<<Success(OneRecord(analyzeInput(catalog, JsString(Trim(input.s))).record)),
              Failure(400, "Invalid request. Provide either \"input\" (string) or \"inputs\" (array)")>>,
            <<Trim(input.s)>>)

\* const result = analyzeInput(input.trim()); return res.json(...)
Single(catalog, input) ==
    IF analyzeInput(catalog, JsString(Trim(input.s))).kind = "threw"
    THEN Handled(<<InternalError>>, <<Trim(input.s)>>)
    ELSE Handled(<<Success(OneRecord(analyzeInput(catalog, JsString(Trim(input.s))).record))>>,
                 <<Trim(input.s)>>)

\* a variant of the filter that keeps every string
KeptElement_AnyString(inp) == TypeOf(inp) = "string"

\* typeof inp === 'string' && inp.trim()
KeptElement(inp) == TypeOf(inp) = "string" /\ Trim(inp.s) # <<>>

\* the strings the map callback passes to analyzeInput
Trimmed(items) ==
    [k \in 1..Len(SelectSeq(items, KeptElement)) |->
        Trim(SelectSeq(items, KeptElement)[k].s)]

\* the first call of the map that throws, 0 if none does
FirstThrow(catalog, strings) ==
    IF \A k \in 1..Len(strings) :
           analyzeInput(catalog, JsString(strings[k])).kind # "threw"
    THEN 0
    ELSE CHOOSE k \in 1..Len(strings) :
           /\ analyzeInput(catalog, JsString(strings[k])).kind = "threw"
           /\ \A j \in 1..(k - 1) :
                  analyzeInput(catalog, JsString(strings[j])).kind # "threw"

\* inputs.filter(...).map(inp => analyzeInput(inp.trim()))
Many(catalog, strings) ==
    IF FirstThrow(catalog, strings) # 0
    THEN Handled(<<InternalError>>, SubSeq(strings, 1, FirstThrow(catalog, strings)))
    ELSE Handled(<<Success(ArrayOf([k \in 1..Len(strings) |->
                              analyzeInput(catalog, JsString(strings[k])).record]))>>,
                 strings)

Rejected(error) == Handled(<<Failure(400, error)>>, <<>>)

\* if (input !== undefined) { ... }
SingleBranch(catalog, input) ==
    IF TypeOf(input) # "string" THEN Rejected("Input must be a string")
    ELSE IF ~IsTruthy(JsString(Trim(input.s))) THEN Rejected("Input cannot be empty")
    ELSE Single(catalog, input)

\* if (inputs !== undefined) { ... }
ManyBranch(catalog, inputs) ==
    IF inputs.t # "array" THEN Rejected("Inputs must be an array")
    ELSE IF Len(inputs.items) = 0 THEN Rejected("Inputs array cannot be empty")
    ELSE Many(catalog, Trimmed(inputs.items))

\* the handler of app.post('/api/analyze')
Handler(catalog, body) ==
    IF ~IsTruthy(body) \/ TypeOf(body) # "object"
    THEN Rejected("Invalid request body. Expected JSON object.")
    ELSE IF ~IsTruthy(body.input) /\ ~IsTruthy(body.inputs)
    THEN Rejected("Missing required parameters. Provide either \"input\" (string) or \"inputs\" (array)")
    ELSE IF body.input.t # "undefined" THEN SingleBranch(catalog, body.input)
    ELSE IF body.inputs.t # "undefined" THEN ManyBranch(catalog, body.inputs)
    ELSE Rejected("Invalid request. Provide either \"input\" (string) or \"inputs\" (array)")

\* '', ' ', '3', ' 3 ', 'a' and 'a'.repeat(10001)
RequestStrings ==
    {<<>>, <<32>>, <<51>>, <<32, 51, 32>>, <<97>>, TOO_LONG_INPUT}

\* what a request carries as input
InputValues ==
    {JS_UNDEFINED, JS_NULL, JS_FALSE, JS_NUMBER}
    \cup {JsString(s) : s \in RequestStrings}

\* the elements of the arrays a request carries as inputs
ItemLists ==
    {<<>>,
     <<JsString(<<51>>)>>,
     <<JS_NULL>>,
     <<JsString(<<32>>), JsString(<<51>>)>>,
     <<JsString(<<97>>), JsString(<<51>>)>>,
     <<JS_NUMBER, JsString(<<32, 51, 32>>), JsString(<<>>), JsString(<<97>>)>>,
     <<JsString(<<51>>), JsString(TOO_LONG_INPUT)>>}

\* what a request carries as inputs
InputsValues ==
    {JS_UNDEFINED, JS_NULL, JS_NUMBER, JsString(<<51>>)}
    \cup {JsArray(items) : items \in ItemLists}

Bodies ==
    {JS_UNDEFINED}
    \cup {JsBody(input, inputs) : input \in InputValues, inputs \in InputsValues}

\* a request arrives and the handler runs to its end
Post(body) ==
    /\ request = NONE
    /\ request' = body
    /\ response' = Handler(hashPatterns, body)
    /\ served' = IF Handler(hashPatterns, body).calls # <<>>
                  THEN served \cup {hashPatterns}
                  ELSE served
    /\ UNCHANGED <<hashPatterns, loadState, pc, arg, result, scored, memo, utilVars>>

\* the response has gone out
Finish ==
    /\ request # NONE
    /\ request' = NONE
    /\ response' = NONE
    /\ UNCHANGED <<hashPatterns, loadState, pc, arg, result, scored, memo,
                   served, utilVars>>

\* loadHashPatterns() is pending when app.listen has run: requests and the
\* end of the load come in either order
ServerNext ==
    \/ \E data \in StartingCatalogs : LoadSucceeds(data)
    \/ LoadFails
    \/ \E body \in Bodies : Post(body)
    \/ Finish

ServerSpec == Init /\ [][ServerNext]_vars

(***************************************************************************)
(* The utility functions applied on their own.                             *)
(***************************************************************************)

\* the longest string a utility function is applied to
MaxApplied == 3

\* a hex digit, a letter that is no hex digit, '+', '=', '$' and 'e' acute
UtilAlphabet == {100, 122, 43, 61, 36, 233}

\* 'deadbeef'
DEADBEEF == <<100, 101, 97, 100, 98, 101, 101, 102>>

\* the first, middle and last letters of both cases
LetterAlphabet == {65, 77, 78, 90, 97, 109, 110, 122}

\* the most 8-bit chunks of a string of binary digits
MaxChunks == 2

\* the bytes 1, 31, 32 ' ', 72 'H', 101 'e', 126 '~' and 127 in binary digits
BinaryChunks ==
    {<<48, 48, 48, 48, 48, 48, 48, 49>>, <<48, 48, 48, 49, 49, 49, 49, 49>>,
     <<48, 48, 49, 48, 48, 48, 48, 48>>, <<48, 49, 48, 48, 49, 48, 48, 48>>,
     <<48, 49, 49, 48, 48, 49, 48, 49>>, <<48, 49, 49, 49, 49, 49, 49, 48>>,
     <<48, 49, 49, 49, 49, 49, 49, 49>>}

\* nothing, '1', '0100100' and '0100100x' after the last complete chunk
TrailingDigits ==
    {<<>>, <<49>>, <<48, 49, 48, 48, 49, 48, 48>>,
     <<48, 49, 48, 48, 49, 48, 48, 120>>}

RECURSIVE Concat(_)
\* the concatenation of a sequence of strings
Concat(strings) ==
    IF strings = <<>> THEN <<>> ELSE Head(strings) \o Concat(Tail(strings))

\* up to MaxChunks chunks and the digits that trail them
BinaryStrings ==
    {Concat(chunks) \o trailing :
        chunks \in UNION {[1..n -> BinaryChunks] : n \in 0..MaxChunks},
        trailing \in TrailingDigits}

UtilStrings ==
    UNION {[1..n -> UtilAlphabet] : n \in 0..MaxApplied}
    \cup UNION {[1..n -> LetterAlphabet] : n \in 0..MaxApplied}
    \cup {<<c>> : c \in 0..255}
    \cup BinaryStrings
    \cup {DEADBEEF, ROT13_INPUT, BINARY_INPUT}

UtilInit ==
    /\ hashPatterns = <<>>
    /\ loadState = "pending"
    /\ pc = "idle"
    /\ arg = JS_UNDEFINED
    /\ result = NO_RECORD
    /\ scored = <<>>
    /\ memo = NONE
    /\ request = NONE
    /\ response = NONE
    /\ served = {}
    /\ applied \in UtilStrings
    /\ returned = NONE

\* getCharset(applied)
GetCharset ==
    /\ returned = NONE
    /\ returned' = [fn |-> "getCharset", value |-> getCharset(applied)]
    /\ UNCHANGED <<hashPatterns, loadState, pc, arg, result, scored, memo,
                   serverVars, applied>>

\* decodeROT13(applied)
DecodeROT13 ==
    /\ returned = NONE
    /\ returned' = [fn |-> "decodeROT13", text |-> decodeROT13(applied)]
    /\ UNCHANGED <<hashPatterns, loadState, pc, arg, result, scored, memo,
                   serverVars, applied>>

\* decodeROT13 applied to what decodeROT13(applied) returned
DecodeROT13Again ==
    /\ returned # NONE
    /\ returned.fn = "decodeROT13"
    /\ returned' = [fn |-> "decodeROT13 twice", text |-> decodeROT13(returned.text)]
    /\ UNCHANGED <<hashPatterns, loadState, pc, arg, result, scored, memo,
                   serverVars, applied>>

\* decodeBinary(applied)
DecodeBinary ==
    /\ returned = NONE
    /\ returned' = [fn |-> "decodeBinary", text |-> decodeBinary(applied)]
    /\ UNCHANGED <<hashPatterns, loadState, pc, arg, result, scored, memo,
                   serverVars, applied>>

UtilNext ==
    \/ GetCharset
    \/ DecodeROT13
    \/ DecodeROT13Again
    \/ DecodeBinary

UtilSpec == UtilInit /\ [][UtilNext]_vars

(***************************************************************************)
(* The properties.  A call has returned when pc = "returned"; result is    *)
(* then the record it returned and scored the iterations of its scoring    *)
(* loop, entry k of scored being the iteration on hashPatterns[k].         *)
(***************************************************************************)
\* the call in progress was given a string the validation accepts
ValidCall ==
    /\ pc = "returned"
    /\ arg.t = "string"
    /\ arg.s # <<>>
    /\ Len(arg.s) <= 10000

\* the iterations that pushed a candidate
IncludedAt == {k \in 1..Len(scored) : scored[k].included}

\* the results are candidates of the scoring loop, not a sentinel
HasCandidates ==
    /\ pc = "returned"
    /\ \A k \in 1..Len(result.results) : result.results[k].id \notin {"unknown", "error"}

\* C1: every score of a returned record lies in [0, 1], also when the raw
\* sum of the weights exceeds 1.0: a candidate's score is exactly 1.0 then.
C1_ScoreInUnitInterval ==
    pc = "returned" =>
        /\ \A k \in 1..Len(result.results) :
               /\ FLe(F0_0, result.results[k].score)
               /\ FLe(result.results[k].score, F1_0)
        /\ \A k \in 1..Len(scored) : \A j \in 1..Len(result.results) :
               (FGt(scored[k].score, F1_0) /\ result.results[j].id = scored[k].id)
                   => result.results[j].score = F1_0

\* a returned candidate whose raw sum exceeds 1.0
C1_Witness ==
    /\ HasCandidates
    /\ \E k \in 1..Len(scored) : \E j \in 1..Len(result.results) :
           /\ FGt(scored[k].score, F1_0)
           /\ result.results[j].id = scored[k].id
           /\ result.results[j].score = F1_0

\* C2: a returned record never holds more than 3 results, whatever the size
\* of the catalog, and holds at least 1 for a valid input.
C2_ResultsLength ==
    /\ pc = "returned" => Len(result.results) <= 3
    /\ ValidCall => Len(result.results) >= 1

\* more than 3 descriptors reached the threshold and 3 are returned
C2_Witness ==
    /\ ValidCall
    /\ HasCandidates
    /\ Cardinality(IncludedAt) > 3
    /\ Len(result.results) = 3

\* iteration a comes before iteration b in the ranking: by higher stored
\* score, and by catalog order among equal scores
Outranks(a, b) ==
    \/ FGt(scored[a].candidate.score, scored[b].candidate.score)
    \/ scored[a].candidate.score = scored[b].candidate.score /\ a < b

\* the place of iteration p in the ranking of the included iterations
Rank(p) == 1 + Cardinality({q \in IncludedAt : Outranks(q, p)})

\* C3: the returned candidates are the first 3 of the ranking of all
\* candidates that reached the threshold, by descending score with equal
\* scores in catalog order.
C3_SortedStableTop3 ==
    HasCandidates =>
        /\ Len(result.results) =
               (IF Cardinality(IncludedAt) < 3 THEN Cardinality(IncludedAt) ELSE 3)
        /\ \A p \in IncludedAt :
               Rank(p) <= 3 => result.results[Rank(p)] = scored[p].candidate

\* a candidate is cut, two returned candidates tie, and a later descriptor
\* is ranked before an earlier one
C3_Witness ==
    /\ HasCandidates
    /\ Cardinality(IncludedAt) > 3
    /\ \E i, j \in 1..Len(result.results) :
           i < j /\ result.results[i].score = result.results[j].score
    /\ \E p, q \in IncludedAt : q < p /\ Rank(p) < Rank(q) /\ Rank(q) <= 3

\* C4: an empty input and an input of more than 10,000 characters are
\* rejected: analyzeInput returns no record for them.
C4_InvalidInputRejected ==
    (arg.t = "string" /\ (arg.s = <<>> \/ Len(arg.s) > 10000)) => pc # "returned"

\* C5: analyzeInput never lets an exception reach its caller, whatever the
\* argument: null, undefined and a number included.
C5_NeverThrows == pc # "threw"

\* C6: for a valid input, when no descriptor of the catalog reaches the
\* inclusion threshold, the empty catalog included, the results are exactly
\* the 'unknown' sentinel; and that sentinel never comes with another result.
C6_UnknownSentinel ==
    ValidCall =>
        /\ (/\ Len(scored) = Len(hashPatterns)
            /\ \A k \in 1..Len(scored) : FLt(scored[k].score, F0_25))
           => result.results =
                  << [id |-> "unknown", name |-> "Unknown", score |-> F0_0,
                      color |-> "red",
                      reasons |-> <<[kind |-> "no patterns matched", arg |-> <<>>]>>] >>
        /\ (\E k \in 1..Len(result.results) : result.results[k].id = "unknown")
           => Len(result.results) = 1

\* a catalog with descriptors, none of which reaches the threshold
C6_Witness ==
    /\ ValidCall
    /\ Len(hashPatterns) > 1
    /\ Len(scored) = Len(hashPatterns)
    /\ \A k \in 1..Len(scored) : FLt(scored[k].score, F0_25)
    /\ \E k \in 1..Len(scored) : FGt(scored[k].score, F0_0)
    /\ Len(result.results) = 1
    /\ result.results[1].id = "unknown"

\* C7: for a valid input, a failure of the scoring of the catalog, such as
\* a null descriptor, gives a record whose single result is the 'error'
\* sentinel, not 'unknown'.
C7_ScoringFailureIsError ==
    (ValidCall /\ \E k \in 1..Len(hashPatterns) : hashPatterns[k].pattern = NULL_PATTERN)
        => /\ Len(result.results) = 1
           /\ result.results[1].id = "error"

\* C8: a descriptor whose raw sum is below 0.25 is not among the results,
\* and every result that is not a sentinel has a score of at least 0.25.
C8_InclusionThreshold ==
    pc = "returned" =>
        /\ \A k \in 1..Len(scored) : \A j \in 1..Len(result.results) :
               FLt(scored[k].score, F0_25) => result.results[j].id # scored[k].id
        /\ \A j \in 1..Len(result.results) :
               result.results[j].id \notin {"unknown", "error"}
                   => FGe(result.results[j].score, F0_25)

\* a descriptor with a positive sum below 0.25 is discarded while another
\* is returned
C8_Witness ==
    /\ HasCandidates
    /\ Len(result.results) >= 1
    /\ \E k \in 1..Len(scored) :
           /\ FGt(scored[k].score, F0_0)
           /\ FLt(scored[k].score, F0_25)
           /\ \A j \in 1..Len(result.results) : result.results[j].id # scored[k].id

\* C9: the tier of a scored result is determined by its stored, clamped
\* score: green iff score > 0.80, yellow iff 0.55 <= score <= 0.80, red iff
\* 0.25 <= score < 0.55.
C9_TierOfClampedScore ==
    pc = "returned" =>
        \A j \in 1..Len(result.results) :
            result.results[j].id \notin {"unknown", "error"} =>
                /\ result.results[j].color \in {"green", "yellow", "red"}
                /\ result.results[j].color = "green"
                       <=> FGt(result.results[j].score, F0_8)
                /\ result.results[j].color = "yellow"
                       <=> (/\ FGe(result.results[j].score, F0_55)
                            /\ FLe(result.results[j].score, F0_8))
                /\ result.results[j].color = "red"
                       <=> (/\ FGe(result.results[j].score, F0_25)
                            /\ FLt(result.results[j].score, F0_55))

\* the three tiers in one record, the green one clamped from a raw sum
\* above 1.0
C9_Witness ==
    /\ HasCandidates
    /\ \E k \in 1..Len(scored) : \E j \in 1..Len(result.results) :
           /\ FGt(scored[k].score, F1_0)
           /\ result.results[j].id = scored[k].id
           /\ result.results[j].color = "green"
    /\ \E j \in 1..Len(result.results) : result.results[j].color = "yellow"
    /\ \E j \in 1..Len(result.results) : result.results[j].color = "red"

\* the signals of iteration k that are of the given kind
SignalsOf(k, kind) == SelectSeq(scored[k].signals, LAMBDA s : s.kind = kind)

\* the prefixes of descriptor k that the input starts with
PrefixHits(k) ==
    {m \in 1..Len(hashPatterns[k].pattern.prefixes) :
        /\ Len(hashPatterns[k].pattern.prefixes[m]) <= Len(arg.s)
        /\ SubSeq(arg.s, 1, Len(hashPatterns[k].pattern.prefixes[m]))
               = hashPatterns[k].pattern.prefixes[m]}

\* C10: when the input starts with a prefix of the descriptor, the score
\* gets +0.25 once, for the first matching prefix of the list, and +0.30 for
\* the signature, 0.55 together, and the evidence holds a 'Prefix match' and
\* a 'Signature match' entry; when no prefix matches, neither signal is there.
C10_PrefixAndSignature ==
    pc = "returned" =>
        \A k \in 1..Len(scored) :
            IF PrefixHits(k) # {}
            THEN /\ Len(SignalsOf(k, "Prefix match")) = 1
                 /\ SignalsOf(k, "Prefix match")[1].w = F0_25
                 /\ SignalsOf(k, "Prefix match")[1].arg
                        = hashPatterns[k].pattern.prefixes[Least(PrefixHits(k))]
                 /\ Len(SignalsOf(k, "Signature match")) = 1
                 /\ SignalsOf(k, "Signature match")[1].w = F0_3
                 /\ FAdd(SignalsOf(k, "Prefix match")[1].w,
                         SignalsOf(k, "Signature match")[1].w) = F0_55
                 /\ FGe(scored[k].score, F0_55)
                 /\ \E r \in 1..Len(scored[k].candidate.reasons) :
                        scored[k].candidate.reasons[r].kind = "Prefix match"
                 /\ \E r \in 1..Len(scored[k].candidate.reasons) :
                        scored[k].candidate.reasons[r].kind = "Signature match"
            ELSE /\ SignalsOf(k, "Prefix match") = <<>>
                 /\ SignalsOf(k, "Signature match") = <<>>
                 /\ \A r \in 1..Len(scored[k].candidate.reasons) :
                        scored[k].candidate.reasons[r].kind
                            \notin {"Prefix match", "Signature match"}

\* the input starts with two prefixes of a descriptor, whose candidate is
\* returned, and with no prefix of another descriptor that has prefixes
C10_Witness ==
    /\ HasCandidates
    /\ \E k \in 1..Len(scored) : \E j \in 1..Len(result.results) :
           /\ Cardinality(PrefixHits(k)) > 1
           /\ result.results[j] = scored[k].candidate
           /\ Len(SignalsOf(k, "Prefix match")) = 1

\* C11: against a catalog whose MD5 descriptor declares only length 32 and
\* charset hex, the input '5d41402abc4b2a76b9719d911017c592' gets an MD5
\* result with a score above 0.8, tier green.
C11_Md5ExampleIsGreen ==
    (/\ ValidCall
     /\ arg.s = MD5_INPUT
     /\ \A k \in 1..Len(hashPatterns) : hashPatterns[k].pattern # NULL_PATTERN
     /\ \E k \in 1..Len(hashPatterns) :
            hashPatterns[k] =
                [id |-> "md5",
                 pattern |-> [name |-> "MD5", length |-> 32, charset |-> "hex",
                              prefixes |-> <<>>, suffixes |-> <<>>, regex |-> ""]])
        => \E j \in 1..Len(result.results) :
               /\ result.results[j].id = "md5"
               /\ FGt(result.results[j].score, F0_8)
               /\ result.results[j].color = "green"

\* C13: after a failed load the catalog is empty, the failure does not reach
\* a caller, and every call on a valid input returns exactly the 'unknown'
\* sentinel.
C13_FailedLoadGivesUnknown ==
    loadState = "failed" =>
        /\ hashPatterns = <<>>
        /\ ValidCall =>
               /\ Len(result.results) = 1
               /\ result.results[1].id = "unknown"
               /\ result.results[1].reasons = <<[kind |-> "no patterns matched", arg |-> <<>>]>>

\* a call on a valid input has returned after the load failed
C13_Witness ==
    /\ loadState = "failed"
    /\ ValidCall
    /\ Len(arg.s) > 1
    /\ result.results[1].id = "unknown"

C19_FreqCountsCharacters ==
    ValidCall =>
        /\ DOMAIN result.freq = {<<c>> : c \in Chars(arg.s)}
        /\ \A c \in Chars(arg.s) : result.freq[<<c>>] = Count(arg.s, c)

\* what getCharset returned for the string it was applied to
CharsetOf(s) == returned = [fn |-> "getCharset", value |-> s]

\* every code unit of the applied string is a hexadecimal digit
OnlyHexDigits ==
    \A i \in 1..Len(applied) :
        \/ applied[i] \in 48..57
        \/ applied[i] \in 65..70
        \/ applied[i] \in 97..102

\* C20: getCharset returns exactly one of 'hex', 'base64', 'ascii' and
\* 'unknown' for every string, and the tests apply in that priority: a
\* non-empty string of hexadecimal digits is 'hex' and never 'base64',
\* 'base64' is returned only when the hex test fails, 'ascii' only when
\* the hex and base64 tests fail, 'unknown' only when all three fail.
C20_CharsetPriority ==
    returned # NONE /\ returned.fn = "getCharset" =>
        /\ returned.value \in {"hex", "base64", "ascii", "unknown"}
        /\ (applied # <<>> /\ OnlyHexDigits) <=> CharsetOf("hex")
        /\ CharsetOf("base64") <=> ~isHex(applied) /\ isBase64(applied)
        /\ CharsetOf("ascii") <=>
               ~isHex(applied) /\ ~isBase64(applied) /\ isAscii(applied)
        /\ CharsetOf("unknown") <=>
               ~isHex(applied) /\ ~isBase64(applied) /\ ~isAscii(applied)

\* 'deadbeef', which also matches the base64 alphabet, was classified hex
C20_Witness ==
    applied = DEADBEEF /\ isBase64(applied) /\ CharsetOf("hex")

\* the catalog has not been loaded or emptied since the record was kept
CatalogHeldFixed == memo # NONE /\ memo.loadState = loadState

C12_RequestsSeeLoadedCatalog ==
    loadState = "loaded" => served \subseteq {hashPatterns}

\* the handler has run on the request
Answered == request # NONE

\* the request is in one of the cases that must be rejected
RejectedCase ==
    \/ request.t = "undefined"
    \/ request.input.t = "undefined" /\ request.inputs.t = "undefined"
    \/ request.input.t \notin {"undefined", "string"}
    \/ request.input.t = "string" /\ Trim(request.input.s) = <<>>
    \/ request.inputs.t \notin {"undefined", "array"}
    \/ request.inputs.t = "array" /\ request.inputs.items = <<>>

\* the one response of the handler is a client error
ClientError ==
    /\ Len(response.sent) = 1
    /\ response.sent[1].status = 400
    /\ ~response.sent[1].success

\* C15: every request receives exactly one response, and a request without
\* a body, with neither input nor inputs, with an input that is not a string
\* or is empty after trimming, or with inputs that is not an array or is an
\* empty array, is answered 400 with success:false without a call of
\* analyzeInput.
C15_RejectedWithoutAnalysis ==
    Answered =>
        /\ Len(response.sent) = 1
        /\ RejectedCase => ClientError /\ response.calls = <<>>

\* the request carries no input property
NoInput == request.t = "object" /\ request.input.t = "undefined"

\* the cases that must be rejected, those about inputs taken for a request
\* that carries no input
RejectedCaseWithoutInput ==
    \/ request.t = "undefined"
    \/ request.input.t = "undefined" /\ request.inputs.t = "undefined"
    \/ request.input.t \notin {"undefined", "string"}
    \/ request.input.t = "string" /\ Trim(request.input.s) = <<>>
    \/ NoInput /\ request.inputs.t \notin {"undefined", "array"}
    \/ NoInput /\ request.inputs.t = "array" /\ request.inputs.items = <<>>

\* C15, amended: every request receives exactly one response, and a request
\* without a body, with neither input nor inputs, with an input that is not
\* a string or is empty after trimming, or with no input and inputs that is
\* not an array or is an empty array, is answered 400 with success:false
\* without a call of analyzeInput.
C15_RejectedUnlessInputGiven ==
    Answered =>
        /\ Len(response.sent) = 1
        /\ RejectedCaseWithoutInput => ClientError /\ response.calls = <<>>

\* a request with an empty array as inputs and no input was rejected
C15_Witness ==
    /\ Answered
    /\ NoInput
    /\ request.inputs.t = "array"
    /\ request.inputs.items = <<>>
    /\ ClientError
    /\ response.calls = <<>>

\* the request carries a non-empty list of inputs and is in none of the
\* cases that must be rejected; the catalog is the one it was handled with
ListRequest ==
    /\ Answered
    /\ ~RejectedCase
    /\ request.inputs.t = "array"
    /\ served \subseteq {hashPatterns}

\* the elements of the list that are strings and not empty after trimming,
\* trimmed, in the order of the request
Remaining ==
    LET kept == SelectSeq(request.inputs.items,
                          LAMBDA inp : inp.t = "string" /\ Trim(inp.s) # <<>>)
    IN  [k \in 1..Len(kept) |-> Trim(kept[k].s)]

\* C16: the response to a request carrying a list of inputs is a success
\* whose data is a list with one record per element that is a string and
\* not empty after trimming, in the order of the request, record i being
\* what analyzeInput returns for the i-th of them, trimmed.
C16_OneRecordPerRemaining ==
    ListRequest =>
        /\ Len(response.sent) = 1
        /\ response.sent[1].success
        /\ response.sent[1].data.array
        /\ Len(response.sent[1].data.records) = Len(Remaining)
        /\ \A i \in 1..Len(Remaining) :
               response.sent[1].data.records[i] =
                   analyzeInput(hashPatterns, JsString(Remaining[i])).record

\* the request carries an input string of more than 10,000 characters
TooLongRequest ==
    /\ Answered
    /\ request.t = "object"
    /\ request.input.t = "string"
    /\ Len(Trim(request.input.s)) > MAX_INPUT_LENGTH

\* C17: a request whose input string is longer than 10,000 characters is
\* answered with a failure response and never with success:true carrying
\* an analysis record.
C17_TooLongIsRejected ==
    TooLongRequest => \A k \in 1..Len(response.sent) : ~response.sent[k].success

\* C16, amended: the response to a request carrying a list of inputs and no
\* input is a success whose data is a list with one record per element that
\* is a string and not empty after trimming, in the order of the request,
\* record i being what analyzeInput returns for the i-th of them, trimmed.
C16_OneRecordPerRemainingOfList ==
    ListRequest /\ NoInput =>
        /\ Len(response.sent) = 1
        /\ response.sent[1].success
        /\ response.sent[1].data.array
        /\ Len(response.sent[1].data.records) = Len(Remaining)
        /\ \A i \in 1..Len(Remaining) :
               response.sent[1].data.records[i] =
                   analyzeInput(hashPatterns, JsString(Remaining[i])).record

\* a list of a number, ' 3 ', '' and 'a' was answered with the records of
\* '3' and 'a', against a loaded catalog of several descriptors
C16_Witness ==
    /\ ListRequest
    /\ NoInput
    /\ Len(request.inputs.items) = 4
    /\ Remaining = <<(<<51>>), (<<97>>)>>
    /\ Len(response.sent[1].data.records) = 2
    /\ loadState = "loaded"
    /\ Len(hashPatterns) >= 2

\* code unit c is an ASCII letter
AsciiLetter(c) == c \in 65..90 \/ c \in 97..122

\* decodeROT13 has returned, once or twice
Rotated(fn) == returned # NONE /\ returned.fn = fn

\* C21: decodeROT13 replaces every ASCII letter by the letter 13 places
\* away in the same case and leaves every other character unchanged, so
\* 'Uryyb' gives 'Hello'; applied twice to a string made only of letters it
\* gives the string back.
C21_Rot13Involution ==
    /\ Rotated("decodeROT13") =>
          /\ Len(returned.text) = Len(applied)
          /\ \A i \in 1..Len(applied) :
                 IF AsciiLetter(applied[i])
                 THEN /\ returned.text[i] - applied[i] \in {13, -13}
                      /\ (applied[i] \in 65..90) = (returned.text[i] \in 65..90)
                      /\ (applied[i] \in 97..122) = (returned.text[i] \in 97..122)
                 ELSE returned.text[i] = applied[i]
          /\ applied = ROT13_INPUT => returned.text = <<72, 101, 108, 108, 111>>
    /\ Rotated("decodeROT13 twice") =>
          ((\A i \in 1..Len(applied) : AsciiLetter(applied[i])) =>
               returned.text = applied)

\* 'NzA' has been rotated twice and is back
C21_Witness ==
    /\ Rotated("decodeROT13 twice")
    /\ applied = <<78, 122, 65>>
    /\ returned.text = applied

\* the value of the k-th chunk of 8 binary digits of the applied string
ByteOf(k) ==
    LET bit(j) == applied[8 * (k - 1) + j] - 48
    IN  128 * bit(1) + 64 * bit(2) + 32 * bit(3) + 16 * bit(4)
        + 8 * bit(5) + 4 * bit(6) + 2 * bit(7) + bit(8)

\* the printable bytes of the complete chunks of the applied string, in order
PrintableBytes ==
    SelectSeq([k \in 1..(Len(applied) \div 8) |-> ByteOf(k)],
              LAMBDA b : b \in 32..126)

\* the applied string matches [01]+
BinaryDigits ==
    applied # <<>> /\ \A i \in 1..Len(applied) : applied[i] \in {48, 49}

\* C22: for an input matching [01]+ decodeBinary returns the characters of
\* the complete 8-bit chunks whose value is in 32..126, in order, the
\* incomplete trailing chunk discarded (so the Hello vector gives 'Hello');
\* it returns null when the input has another character or no chunk is
\* printable.
C22_BinaryChunks ==
    returned # NONE /\ returned.fn = "decodeBinary" =>
        /\ returned.text =
              IF BinaryDigits /\ PrintableBytes # <<>> THEN PrintableBytes ELSE NULL
        /\ applied = BINARY_INPUT => returned.text = <<72, 101, 108, 108, 111>>

\* two chunks, the second one not printable, and an incomplete third chunk
\* gave the character of the first
C22_Witness ==
    /\ returned # NONE
    /\ returned.fn = "decodeBinary"
    /\ BinaryDigits
    /\ Len(applied) = 23
    /\ returned.text = <<72>>

\* the descriptor has a regex text that does not compile
InvalidRegex(entry) ==
    entry.pattern # NULL_PATTERN /\ entry.pattern.regex = RE_INVALID

\* the catalog with the regex text taken out of every such descriptor
WithoutInvalidRegex(catalog) ==
    [k \in 1..Len(catalog) |->
        IF InvalidRegex(catalog[k])
        THEN [catalog[k] EXCEPT !.pattern.regex = ""]
        ELSE catalog[k]]

\* C23: a descriptor whose regex text is invalid raises no error and gets
\* nothing from the regex signal; its other signals, and the scores,
\* evidence and ranking of every descriptor, are those of the same catalog
\* with that descriptor's regex left out.
C23_InvalidRegexIsSkipped ==
    (pc \in {"returned", "threw"} /\ arg.t = "string"
     /\ \E k \in 1..Len(hashPatterns) : InvalidRegex(hashPatterns[k])) =>
        /\ pc = "returned"
        /\ \A k \in 1..Len(scored) :
               InvalidRegex(hashPatterns[k]) =>
                   \A j \in 1..Len(scored[k].signals) :
                       scored[k].signals[j].kind # "Regex pattern match"
        /\ ValidCall =>
               /\ ScoreCatalog(WithoutInvalidRegex(hashPatterns), arg.s) = scored
               /\ WithUnknown(detectCandidates(WithoutInvalidRegex(hashPatterns),
                                               arg.s, scored))
                      = result.results

\* the descriptor with the invalid regex was scored on its prefix behind
\* another descriptor of the catalog and is among the results
C23_Witness ==
    /\ pc = "returned"
    /\ arg = JsString(BCRYPT_INPUT)
    /\ Len(scored) >= 2
    /\ InvalidRegex(hashPatterns[2])
    /\ scored[2].included
    /\ \E j \in 1..Len(scored[2].signals) : scored[2].signals[j].kind = "Prefix match"
    /\ \E r \in 1..Len(result.results) : result.results[r].id = hashPatterns[2].id

\* the charset classes an evidence string can name
CharsetNames == {"hex", "base64", "ascii", "unknown"}

\* the place of an evidence string in the evaluation order, 0 for a string
\* that no step of the evaluation writes
Step(kind) ==
    CASE kind = "Regex pattern match" -> 1
      [] kind = "Prefix match" -> 2
      [] kind \in {"Exact length match", "Fuzzy length match", "Near length match"} -> 3
      [] kind \in {"Charset match (" \o c \o ")" : c \in CharsetNames} -> 4
      [] kind \in {"Decoded charset match (" \o c \o ")" : c \in CharsetNames} -> 5
      [] kind = "Charset variation match" -> 6
      [] kind = "Suffix match" -> 7
      [] kind = "High entropy" -> 8
      [] kind = "Decodable content" -> 9
      [] kind = "Decoded content charset match" -> 10
      [] kind = "Signature match" -> 11
      [] OTHER -> 0

\* the steps that can write two evidence strings: the base64-decoded and the
\* hex-decoded charset
TwiceWritten == {5, 10}

\* C24: the evidence strings of every scored result are in the evaluation
\* order regex, prefix, length, charset (direct, decoded, variation),
\* suffix, entropy, decodability, signature, whichever of them fired, and
\* the signature entry is the last one.
C24_EvidenceInEvaluationOrder ==
    HasCandidates =>
        \A r \in 1..Len(result.results) :
            /\ \A i \in 1..Len(result.results[r].reasons) :
                   Step(result.results[r].reasons[i].kind) # 0
            /\ \A i \in 1..(Len(result.results[r].reasons) - 1) :
                   \/ Step(result.results[r].reasons[i].kind)
                        < Step(result.results[r].reasons[i + 1].kind)
                   \/ /\ Step(result.results[r].reasons[i].kind)
                           = Step(result.results[r].reasons[i + 1].kind)
                      /\ Step(result.results[r].reasons[i].kind) \in TwiceWritten
            /\ \A i \in 1..Len(result.results[r].reasons) :
                   result.results[r].reasons[i].kind = "Signature match" =>
                       i = Len(result.results[r].reasons)

\* a result with a prefix entry, a signature entry and entries of at least
\* two steps between them
C24_Witness ==
    /\ HasCandidates
    /\ \E r \in 1..Len(result.results) :
           /\ Len(result.results[r].reasons) >= 4
           /\ result.results[r].reasons[1].kind = "Prefix match"
           /\ result.results[r].reasons[Len(result.results[r].reasons)].kind
                  = "Signature match"
           /\ Step(result.results[r].reasons[2].kind)
                  < Step(result.results[r].reasons[3].kind)

\* C25: the record of an input without an ASCII letter has no rot13 key in
\* its decoding mapping.
C25_Rot13NeedsLetters ==
    (ValidCall /\ \A i \in 1..Len(arg.s) : ~AsciiLetter(arg.s[i])) =>
        "rot13" \notin DOMAIN result.decoding

\* C26: when the signature boost fires for a descriptor, its 'Signature
\* match' entry names the prefix that its 'Prefix match' entry names, the
\* first prefix of the list that the input starts with.
C26_SignatureNamesMatchedPrefix ==
    ValidCall =>
        \A k \in 1..Len(scored) :
            \A i \in 1..Len(SignalsOf(k, "Signature match")) :
                /\ SignalsOf(k, "Prefix match") # <<>>
                /\ SignalsOf(k, "Signature match")[i].arg
                       = SignalsOf(k, "Prefix match")[1].arg
                /\ PrefixHits(k) # {}
                /\ SignalsOf(k, "Signature match")[i].arg
                       = hashPatterns[k].pattern.prefixes[
                             CHOOSE m \in PrefixHits(k) : \A n \in PrefixHits(k) : m <= n]

\* C27: a descriptor one of whose prefixes a valid input starts with
\* reaches the inclusion threshold and its tier is yellow or green.
C27_PrefixClearsThreshold ==
    ValidCall =>
        \A k \in 1..Len(scored) :
            PrefixHits(k) # {} =>
                /\ scored[k].included
                /\ scored[k].candidate.color \in {"yellow", "green"}

\* a descriptor was scored on its prefix and signature alone, 0.55, and is
\* yellow
C27_Witness ==
    /\ ValidCall
    /\ \E k \in 1..Len(scored) :
           /\ PrefixHits(k) # {}
           /\ Len(scored[k].signals) = 2
           /\ scored[k].score = F0_55
           /\ scored[k].included
           /\ scored[k].candidate.color = "yellow"

\* the place of the candidate of iteration k in the results, 0 when it is
\* not among them
Place(k) ==
    IF \E r \in 1..Len(result.results) : result.results[r].id = scored[k].id
    THEN CHOOSE r \in 1..Len(result.results) : result.results[r].id = scored[k].id
    ELSE 0

\* the raw sum of iteration k is at least 1.0
Saturated(k) == k \in IncludedAt /\ FGe(scored[k].score, F1_0)

\* C28: ranking and the cut to 3 use the clamped score: of two included
\* descriptors whose raw sums are both at least 1.0, the one earlier in the
\* catalog is ranked first whichever raw sum is larger, and the later one
\* is among the results only if the earlier one is.
C28_RankedByClampedScore ==
    HasCandidates =>
        \A a \in 1..Len(scored) : \A b \in 1..Len(scored) :
            (a < b /\ Saturated(a) /\ Saturated(b) /\ Place(b) # 0) =>
                Place(a) # 0 /\ Place(a) < Place(b)

\* a descriptor with raw sum 1.65 was cut from the results in favour of
\* three earlier descriptors with raw sum 1.1
C28_Witness ==
    /\ HasCandidates
    /\ Len(scored) = 4
    /\ \A a \in 1..3 :
           Saturated(a) /\ FLt(scored[a].score, scored[4].score) /\ Place(a) = a
    /\ Saturated(4)
    /\ Place(4) = 0

\* the signals that the charset step of iteration k added
CharsetStep(k) == SelectSeq(scored[k].signals, LAMBDA s : Step(s.kind) \in {4, 5, 6})

\* a weight of the charset step, in hundredths
Hundredths(w) ==
    CASE w = F0_2 -> 20
      [] w = F0_15 -> 15
      [] w = F0_1 -> 10

RECURSIVE TotalHundredths(_)
TotalHundredths(signals) ==
    IF signals = <<>> THEN 0
    ELSE Hundredths(Head(signals).w) + TotalHundredths(Tail(signals))

\* C29: the charset-variation bonus is never awarded: no iteration holds a
\* 'Charset variation match' signal, the input is never classified
\* 'alphanum', a hex descriptor scored on a hex input holds the direct
\* charset match, and the weights of the charset step add up to one of 0,
\* 0.15, 0.20, 0.30, 0.35 and 0.50.
C29_NoCharsetVariation ==
    ValidCall =>
        /\ getCharset(arg.s) # "alphanum"
        /\ \A k \in 1..Len(scored) :
               /\ SignalsOf(k, "Charset variation match") = <<>>
               /\ (hashPatterns[k].pattern.charset = "hex" /\ getCharset(arg.s) = "hex")
                      => SignalsOf(k, "Charset match (hex)") # <<>>
               /\ TotalHundredths(CharsetStep(k)) \in {0, 15, 20, 30, 35, 50}

\* a hex descriptor scored on a hex input whose hex decoding is hex again:
\* the direct and a decoded charset match, 0.35 together, and no variation
C29_Witness ==
    /\ ValidCall
    /\ \E k \in 1..Len(scored) :
           /\ hashPatterns[k].pattern.charset = "hex"
           /\ getCharset(arg.s) = "hex"
           /\ TotalHundredths(CharsetStep(k)) = 35
           /\ SignalsOf(k, "Charset variation match") = <<>>

\* C30: in the statistics of every record that analyzeInput returns for a
\* string, the successful, the 'unknown' and the 'error' records alike,
\* digits + letters + special = total = the length of the input, and
\* unique <= total, with unique >= 1 when the input is not empty.
C30_StatsAddUp ==
    (pc = "returned" /\ arg.t = "string") =>
        /\ result.stats.digits + result.stats.letters + result.stats.special
               = result.stats.total
        /\ result.stats.total = Len(arg.s)
        /\ result.stats.unique <= result.stats.total
        /\ (arg.s # <<>>) => result.stats.unique >= 1

\* an 'error' record of a non-empty input: the statistics of the string that
\* is too long
C30_Witness ==
    /\ pc = "returned"
    /\ arg.t = "string"
    /\ Len(arg.s) > MAX_INPUT_LENGTH
    /\ result.results[1].id = "error"
    /\ result.stats.letters = Len(arg.s)
    /\ result.stats.unique = 1

====
